---------------------------- MODULE Spec2Model ----------------------------
(***************************************************************************)
(* The AAC sentence workflow of app/aac_graph: the nodes of nodes.py, the  *)
(* routers of routes.py, and the graph walk that threads one GraphState    *)
(* dictionary through them.                                                *)
(*                                                                         *)
(* Representation.  A Python str that comes from a provider or the store   *)
(* is a sequence of one-character strings (<<"O","K">>), so that strip(),  *)
(* upper() and json.loads() are computed on the characters.  Node names    *)
(* and dictionary keys, which the program never transforms, are TLA+       *)
(* strings.  A GraphState is a function from the keys it holds to their    *)
(* values; a key the dict does not hold is not in its DOMAIN.              *)
(***************************************************************************)
EXTENDS Integers, Sequences, FiniteSets, TLC

VARIABLES
    state,         \* the GraphState dict handed from node to node
    pc,            \* the node the graph runs next, or "finish"
    invoked,       \* history: the names of the nodes invoked so far, in order
    normal_entry,  \* the node wired after normal_generate (see NormalEntries)
    store,         \* what Redis holds under the key of the run's user
    failure        \* history: the node whose provider call raised, or "none"

vars == <<state, pc, invoked, normal_entry, store, failure>>

----------------------------------------------------------------------------
(* Bounds of the model. *)

\* A run is cut after this many node invocations (the source has no cap).
MaxSteps == 11

\* Stored phrase lists hold every token sequence up to this length.
MaxPhrases == 4

\* NodeSpec applies at most this many nodes to a drawn state.
MaxCalls == 2

\* lrange(key, -10, -1): the window of the most recent phrases.
RecentWindow == 10

\* The retry cap the specification asks for ("e.g., max 3 attempts per track").
MaxAttempts == 3

----------------------------------------------------------------------------
(* Text: str.strip(), str.upper(). *)

Whitespace == {" ", "\t", "\n", "\r"}

Lowers == <<"a","b","c","d","e","f","g","h","i","j","k","l","m",
            "n","o","p","q","r","s","t","u","v","w","x","y","z">>

Uppers == <<"A","B","C","D","E","F","G","H","I","J","K","L","M",
            "N","O","P","Q","R","S","T","U","V","W","X","Y","Z">>

UpperChar(c) ==
    IF \E i \in 1..Len(Lowers) : Lowers[i] = c
    THEN Uppers[CHOOSE i \in 1..Len(Lowers) : Lowers[i] = c]
    ELSE c

Upper(s) == [i \in 1..Len(s) |-> UpperChar(s[i])]

RECURSIVE LStrip(_)
LStrip(s) ==
    IF s # <<>> /\ Head(s) \in Whitespace THEN LStrip(Tail(s)) ELSE s

RECURSIVE RStrip(_)
RStrip(s) ==
    IF s # <<>> /\ s[Len(s)] \in Whitespace
    THEN RStrip(SubSeq(s, 1, Len(s) - 1))
    ELSE s

Strip(s) == RStrip(LStrip(s))

\* The literals of the program.
EMERGENCY == <<"E","M","E","R","G","E","N","C","Y">>
REQUEST == <<"R","E","Q","U","E","S","T">>
STATUS == <<"S","T","A","T","U","S">>
OTHER_INTENT == <<"O","T","H","E","R">>
Intents == {EMERGENCY, REQUEST, STATUS, OTHER_INTENT}

OK == <<"O","K">>
REWRITE == <<"R","E","W","R","I","T","E">>
TOO_LONG == <<"T","O","O","_","L","O","N","G">>
NOT_POLITE == <<"N","O","T","_","P","O","L","I","T","E">>
UNCLEAR == <<"U","N","C","L","E","A","R">>

EmptyStr == <<>>

----------------------------------------------------------------------------
(* json.loads, on the JSON the model's replies and payloads are written    *)
(* in: whitespace, strings without escapes, unsigned integers, null,       *)
(* arrays and objects.  A parse returns [ok, val, next]; a value is        *)
(* [t |-> "str" | "num" | "null" | "list" | "obj", v |-> ...].             *)

Digits == {"0","1","2","3","4","5","6","7","8","9"}
Quote == "\""

At(s, i) == IF i >= 1 /\ i <= Len(s) THEN s[i] ELSE "EOF"

Fail == [ok |-> FALSE, val |-> [t |-> "null", v |-> <<>>], next |-> 0]
Parsed(val, next) == [ok |-> TRUE, val |-> val, next |-> next]

RECURSIVE SkipWs(_, _)
SkipWs(s, i) == IF At(s, i) \in Whitespace THEN SkipWs(s, i + 1) ELSE i

RECURSIVE FindQuote(_, _)
FindQuote(s, i) ==
    IF i > Len(s) THEN 0
    ELSE IF s[i] = Quote THEN i
    ELSE FindQuote(s, i + 1)

ParseString(s, i) ==
    IF At(s, i) # Quote THEN Fail
    ELSE LET j == FindQuote(s, i + 1)
         IN IF j = 0 THEN Fail
            ELSE Parsed([t |-> "str", v |-> SubSeq(s, i + 1, j - 1)], j + 1)

RECURSIVE DigitsEnd(_, _)
DigitsEnd(s, i) == IF At(s, i) \in Digits THEN DigitsEnd(s, i + 1) ELSE i

NullWord == <<"n","u","l","l">>

RECURSIVE ParseValue(_, _)
RECURSIVE ParseItems(_, _, _)
RECURSIVE ParseMembers(_, _, _)

ParseValue(s, i) ==
    LET c == At(s, i)
    IN CASE c = Quote -> ParseString(s, i)
         [] c \in Digits ->
                LET j == DigitsEnd(s, i)
                IN Parsed([t |-> "num", v |-> SubSeq(s, i, j - 1)], j)
         [] c = "n" ->
                IF i + 3 <= Len(s) /\ SubSeq(s, i, i + 3) = NullWord
                THEN Parsed([t |-> "null", v |-> <<>>], i + 4)
                ELSE Fail
         [] c = "[" ->
                LET j == SkipWs(s, i + 1)
                IN IF At(s, j) = "]"
                   THEN Parsed([t |-> "list", v |-> <<>>], j + 1)
                   ELSE ParseItems(s, j, <<>>)
         [] c = "{" ->
                LET j == SkipWs(s, i + 1)
                IN IF At(s, j) = "}"
                   THEN Parsed([t |-> "obj", v |-> <<>>], j + 1)
                   ELSE ParseMembers(s, j, <<>>)
         [] OTHER -> Fail

ParseItems(s, i, acc) ==
    LET item == ParseValue(s, i)
    IN IF ~item.ok THEN Fail
       ELSE LET j == SkipWs(s, item.next)
                items == Append(acc, item.val)
            IN CASE At(s, j) = "," -> ParseItems(s, SkipWs(s, j + 1), items)
                 [] At(s, j) = "]" -> Parsed([t |-> "list", v |-> items], j + 1)
                 [] OTHER -> Fail

ParseMembers(s, i, acc) ==
    LET key == ParseString(s, i)
    IN IF ~key.ok THEN Fail
       ELSE LET j == SkipWs(s, key.next)
            IN IF At(s, j) # ":" THEN Fail
               ELSE LET item == ParseValue(s, SkipWs(s, j + 1))
                    IN IF ~item.ok THEN Fail
                       ELSE LET k == SkipWs(s, item.next)
                                members == Append(acc, <<key.val.v, item.val>>)
                            IN CASE At(s, k) = "," ->
                                        ParseMembers(s, SkipWs(s, k + 1), members)
                                 [] At(s, k) = "}" ->
                                        Parsed([t |-> "obj", v |-> members], k + 1)
                                 [] OTHER -> Fail

\* json.loads(text): ok = FALSE stands for JSONDecodeError.
JsonLoads(s) ==
    LET r == ParseValue(s, SkipWs(s, 1))
    IN IF r.ok /\ SkipWs(s, r.next) > Len(s) THEN r ELSE Fail

\* str(x) of a decoded JSON value.  The repr of a container is only known
\* to start with its bracket, which is all the program's comparisons need.
PyStr(val) ==
    CASE val.t = "str" -> val.v
      [] val.t = "num" -> val.v
      [] val.t = "null" -> <<"N","o","n","e">>
      [] val.t = "list" -> <<"[", "..." , "]">>
      [] OTHER -> <<"{", "...", "}">>

\* dict.get(key, "") on a decoded JSON object (a later duplicate key wins),
\* followed by str().
RECURSIVE ObjGetStr(_, _, _)
ObjGetStr(members, key, default) ==
    IF members = <<>> THEN default
    ELSE LET last == members[Len(members)]
         IN IF last[1] = key THEN PyStr(last[2])
            ELSE ObjGetStr(SubSeq(members, 1, Len(members) - 1), key, default)

----------------------------------------------------------------------------
(* The GraphState dict. *)

Has(st, k) == k \in DOMAIN st

\* state.get(k, default)
Get(st, k, default) == IF Has(st, k) THEN st[k] ELSE default

\* {**state, k: v}
Put(st, k, v) == (k :> v) @@ st

----------------------------------------------------------------------------
(* What the store and the providers can hand to the nodes. *)

help == <<"h","e","l","p">>
fire == <<"f","i","r","e">>
Tokens == {help, fire}

UserIds == {<<"u","1">>}

RECURSIVE SeqsUpTo(_, _)
SeqsUpTo(S, n) ==
    IF n = 0 THEN {<<>>}
    ELSE LET shorter == SeqsUpTo(S, n - 1)
         IN shorter \cup {Append(q, x) : q \in {r \in shorter : Len(r) = n - 1}, x \in S}

\* A stored list one longer than the window lrange reads.
LongList == [i \in 1..(RecentWindow + 1) |-> IF i % 2 = 1 THEN help ELSE fire]

\* The Redis LIST under phrases:{user_id}.
StoredLists == SeqsUpTo(Tokens, MaxPhrases) \cup {LongList}

Quoted(s) == <<Quote>> \o s \o <<Quote>>

RECURSIVE JoinComma(_)
JoinComma(parts) ==
    IF parts = <<>> THEN <<>>
    ELSE IF Len(parts) = 1 THEN parts[1]
    ELSE parts[1] \o <<",">> \o JoinComma(Tail(parts))

JsonArray(parts) == <<"[">> \o JoinComma(parts) \o <<"]">>
JsonObject(key, value) == <<"{">> \o Quoted(key) \o <<":">> \o value \o <<"}">>

\* What redis_client.get(key) does: raises, returns None, or returns text.
JsonPayloads ==
    { [kind |-> "raises", text |-> <<>>],
      [kind |-> "none", text |-> <<>>],
      [kind |-> "text", text |-> <<>>],
      [kind |-> "text", text |-> <<"o","o","p","s">>],
      [kind |-> "text", text |-> JsonObject(<<"a">>, Quoted(<<"b">>))],
      [kind |-> "text", text |-> JsonArray(<<Quoted(help), Quoted(help), Quoted(fire)>>)],
      [kind |-> "text", text |-> <<" ">> \o JsonArray(<<<<"1">>, Quoted(fire)>>) \o <<"\n">>],
      [kind |-> "text", text |-> JsonArray([i \in 1..(RecentWindow + 1) |-> Quoted(fire)])] }

\* What is stored under phrases:{user_id}: the LIST that lrange reads (a
\* list read that fails comes back from the wrapper as the empty list) and
\* what redis_client.get does.  A key holds a list or a string, not both
NoValue == [kind |-> "none", text |-> <<>>]
StoreOf(lst, value) == [list |-> lst, value |-> value]

\* (or both, when the key is rewritten between the two reads).
Stores ==
    {StoreOf(lst, NoValue) : lst \in StoredLists \ {<<>>}}
        \cup {StoreOf(<<>>, payload) : payload \in JsonPayloads}
        \cup {StoreOf(<<fire>>, payload) : payload \in JsonPayloads}

\* The stores the graph walk is run on.
RunStores ==
    { StoreOf(<<help>>, NoValue),
      StoreOf(<<help, help, fire>>, NoValue),
      StoreOf(<<>>, NoValue),
      StoreOf(<<>>, [kind |-> "text", text |-> <<"o","o","p","s">>]),
      StoreOf(<<>>, [kind |-> "text", text |->
                        <<" ">> \o JsonArray(<<<<"1">>, Quoted(fire)>>) \o <<"\n">>]) }

intent_key == <<"i","n","t","e","n","t">>
JsonIntent(word) == JsonObject(intent_key, Quoted(word))

\* Replies of gpt_intent_chat.
IntentReplies ==
    { JsonIntent(EMERGENCY),
      <<"e","m","e","r","g","e","n","c","y">>,
      JsonIntent(<<"B","O","G","U","S">>),
      Quoted(<<"e","m","e","r","g","e","n","c","y">>),
      JsonIntent(<<"r","e","q","u","e","s","t">>),
      <<" ">> \o STATUS \o <<"\n">>,
      JsonObject(intent_key, NullWord),
      <<"{","}">> }

\* Replies of gpt_client.chat to the two generation prompts and to the
\* refinement prompt.
GenReplies == { <<"a">>, <<" ","b","\n">> }
RefineReplies == { <<"c">>, <<" ">> }

\* Replies of gemini_client.chat to either verification prompt.
VerifyReplies ==
    { OK, <<" ">> \o OK \o <<"\n">>, REWRITE, TOO_LONG, NOT_POLITE, UNCLEAR }

----------------------------------------------------------------------------
(* nodes.py *)

\* The prompt of a node: its kind and the text interpolated into it (the
\* wording, and the cut to 300 characters, are not represented).
Prompt(kind, arg) == <<kind, arg>>

\* Mutant: the trace is started afresh instead of copied.
_append_debug_fresh(st, step, info) ==
    Put(st, "debug_trace", <<info @@ [step |-> step]>>)

_append_debug(st, step, info) ==
    LET trace == Get(st, "debug_trace", <<>>)
    IN Put(st, "debug_trace", Append(trace, info @@ [step |-> step]))

\* f"phrases:{user_id}"
RedisKey(user_id) == <<"p","h","r","a","s","e","s",":">> \o user_id

\* lrange(key, start, stop) on a stored list: Redis LRANGE, negative
\* indices counting from the end, both ends clamped.
LRange(lst, start, stop) ==
    LET n == Len(lst)
        lo0 == IF start < 0 THEN n + start ELSE start
        hi0 == IF stop < 0 THEN n + stop ELSE stop
        lo == IF lo0 < 0 THEN 0 ELSE lo0
        hi == IF hi0 > n - 1 THEN n - 1 ELSE hi0
    IN SubSeq(lst, lo + 1, hi + 1)

\* Mutant: no isinstance(data, list) test; a decoded dict is iterated (its
\* keys), any other value raises and is swallowed.
JsonFallback_any_iterable(payload) ==
    IF payload.kind # "text" \/ payload.text = <<>> THEN <<>>
    ELSE LET data == JsonLoads(payload.text)
         IN IF data.ok /\ data.val.t = "list"
            THEN [i \in 1..Len(data.val.v) |-> PyStr(data.val.v[i])]
            ELSE IF data.ok /\ data.val.t = "obj"
            THEN [i \in 1..Len(data.val.v) |-> data.val.v[i][1]]
            ELSE <<>>

\* The JSON-string fallback: the body of the try block.
JsonFallback(payload) ==
    IF payload.kind # "text" \/ payload.text = <<>> THEN <<>>
    ELSE LET data == JsonLoads(payload.text)
         IN IF data.ok /\ data.val.t = "list"
            THEN [i \in 1..Len(data.val.v) |-> PyStr(data.val.v[i])]
            ELSE <<>>

load_recent_phrases(st, lst, payload) ==
    LET user_id == st["user_id"]
        key == RedisKey(user_id)
        listed == LRange(lst, 0 - RecentWindow, -1)
        recent_phrases == IF listed = <<>> THEN JsonFallback(payload) ELSE listed
        new_state == Put(st, "raw_phrases", recent_phrases)
    IN _append_debug(new_state, "load_recent_phrases",
            [user_id |-> user_id, redis_key |-> key,
             raw_phrases |-> recent_phrases, count |-> Len(recent_phrases)])

\* Mutant: a token is dropped when it was appended anywhere before.
RECURSIVE Collapse_distinct(_, _)
Collapse_distinct(raw, normalized) ==
    IF raw = <<>> THEN normalized
    ELSE LET token == Head(raw)
         IN IF \A i \in 1..Len(normalized) : normalized[i] # token
            THEN Collapse_distinct(Tail(raw), Append(normalized, token))
            ELSE Collapse_distinct(Tail(raw), normalized)

\* Mutant: a token is compared with the one before it in the input, and
\* the test starts afresh after each dropped token (pairs are collapsed).
RECURSIVE Collapse_pairs(_, _)
Collapse_pairs(raw, normalized) ==
    IF raw = <<>> THEN normalized
    ELSE IF Len(raw) >= 2 /\ raw[1] = raw[2]
    THEN Collapse_pairs(Tail(Tail(raw)), Append(normalized, raw[1]))
    ELSE Collapse_pairs(Tail(raw), Append(normalized, Head(raw)))

RECURSIVE Collapse(_, _)
Collapse(raw, normalized) ==
    IF raw = <<>> THEN normalized
    ELSE LET token == Head(raw)
         IN IF normalized = <<>> \/ normalized[Len(normalized)] # token
            THEN Collapse(Tail(raw), Append(normalized, token))
            ELSE Collapse(Tail(raw), normalized)

normalize_phrases(st) ==
    LET raw == Get(st, "raw_phrases", <<>>)
        normalized == Collapse(raw, <<>>)
        new_state == Put(st, "normalized_phrases", normalized)
    IN _append_debug(new_state, "normalize_phrases",
            [raw_phrases |-> raw, normalized_phrases |-> normalized])

\* Mutant: no reading of the raw text when the JSON reading raises.
\* Mutant: the value read from the reply is taken as the intent without
\* the membership test.
ParseIntent_unvalidated(resp_text) ==
    LET data == JsonLoads(resp_text)
        val == IF data.ok /\ data.val.t = "obj"
               THEN Upper(ObjGetStr(data.val.v, intent_key, EmptyStr))
               ELSE Upper(Strip(resp_text))
    IN [intent |-> val, parsed_val |-> val]

ParseIntent_json_only(resp_text) ==
    LET data == JsonLoads(resp_text)
        val == IF data.ok /\ data.val.t = "obj"
               THEN Upper(ObjGetStr(data.val.v, intent_key, EmptyStr))
               ELSE EmptyStr
    IN [intent |-> IF val \in Intents THEN val ELSE OTHER_INTENT,
        parsed_val |-> val]

\* Lines 100-114: the JSON reading of the reply, and on any exception
\* (JSONDecodeError, or .get on a decoded value that is not a dict) the
\* reading of the stripped, uppercased raw text.
ParseIntent(resp_text) ==
    LET data == JsonLoads(resp_text)
        val == IF data.ok /\ data.val.t = "obj"
               THEN Upper(ObjGetStr(data.val.v, intent_key, EmptyStr))
               ELSE Upper(Strip(resp_text))
    IN [intent |-> IF val \in Intents THEN val ELSE OTHER_INTENT,
        parsed_val |-> val]

intent_classifier(st, resp_text) ==
    LET phrases == Get(st, "normalized_phrases", <<>>)
        prompt == Prompt("intent", phrases)
        parsed == ParseIntent(resp_text)
        intent == parsed.intent
        new_state == Put(Put(st, "intent", intent),
                         "is_emergency", intent = EMERGENCY)
    IN _append_debug(new_state, "intent_classifier",
            [phrases |-> phrases, prompt_preview |-> prompt,
             raw_response |-> resp_text, parsed_intent |-> parsed.parsed_val,
             final_intent |-> intent, is_emergency |-> (intent = EMERGENCY)])

emergency_generate(st, reply) ==
    LET phrases == Get(st, "normalized_phrases", <<>>)
        prompt == Prompt("emergency_generate", phrases)
        sentence == Strip(reply)
        new_state == Put(st, "draft_sentence", sentence)
    IN _append_debug(new_state, "emergency_generate",
            [phrases |-> phrases, prompt_preview |-> prompt,
             draft_sentence |-> sentence])

\* Mutant: a failing check clears final_sentence.
emergency_check_clearing(st, reply) ==
    LET sentence == Get(st, "draft_sentence", EmptyStr)
        status == Strip(reply)
        rule_status == IF status = OK THEN OK ELSE REWRITE
        final_sentence == IF rule_status = OK THEN sentence ELSE EmptyStr
        new_state == Put(Put(st, "rule_status", rule_status),
                         "final_sentence", final_sentence)
    IN _append_debug(new_state, "emergency_check",
            [checked_sentence |-> sentence, raw_response |-> status,
             rule_status |-> rule_status, final_sentence |-> final_sentence])

emergency_check(st, reply) ==
    LET sentence == Get(st, "draft_sentence", EmptyStr)
        status == Strip(reply)
        rule_status == IF status = OK THEN OK ELSE REWRITE
        final_sentence == IF rule_status = OK THEN sentence
                          ELSE Get(st, "final_sentence", EmptyStr)
        new_state == Put(Put(st, "rule_status", rule_status),
                         "final_sentence", final_sentence)
    IN _append_debug(new_state, "emergency_check",
            [checked_sentence |-> sentence, raw_response |-> status,
             rule_status |-> rule_status, final_sentence |-> final_sentence])

normal_generate(st, reply) ==
    LET phrases == Get(st, "normalized_phrases", <<>>)
        prompt == Prompt("normal_generate", phrases)
        sentence == Strip(reply)
        new_state == Put(st, "draft_sentence", sentence)
    IN _append_debug(new_state, "normal_generate",
            [phrases |-> phrases, prompt_preview |-> prompt,
             draft_sentence |-> sentence])

\* Mutant: the refined sentence also replaces the draft.
refine_sentence_redrafting(st, reply) ==
    LET draft == Get(st, "draft_sentence", EmptyStr)
        prompt == Prompt("refine_sentence", draft)
        refined == Strip(reply)
        new_state == Put(Put(st, "refined_sentence", refined),
                         "draft_sentence", refined)
    IN _append_debug(new_state, "refine_sentence",
            [draft_sentence |-> draft, prompt_preview |-> prompt,
             refined_sentence |-> refined])

refine_sentence(st, reply) ==
    LET draft == Get(st, "draft_sentence", EmptyStr)
        prompt == Prompt("refine_sentence", draft)
        refined == Strip(reply)
        new_state == Put(st, "refined_sentence", refined)
    IN _append_debug(new_state, "refine_sentence",
            [draft_sentence |-> draft, prompt_preview |-> prompt,
             refined_sentence |-> refined])

\* state.get("refined_sentence") or state.get("draft_sentence", "") or "":
\* a missing or empty refined_sentence gives way to draft_sentence.
SentenceToCheck(st) ==
    IF Get(st, "refined_sentence", EmptyStr) # EmptyStr
    THEN st["refined_sentence"]
    ELSE Get(st, "draft_sentence", EmptyStr)

normal_check(st, reply) ==
    LET sentence == SentenceToCheck(st)
        tag == Strip(reply)
        rule_status == IF tag \in {TOO_LONG, NOT_POLITE, UNCLEAR} THEN tag ELSE OK
        final_sentence == IF rule_status = OK THEN sentence
                          ELSE Get(st, "final_sentence", EmptyStr)
        new_state == Put(Put(st, "rule_status", rule_status),
                         "final_sentence", final_sentence)
    IN _append_debug(new_state, "normal_check",
            [checked_sentence |-> sentence, raw_response |-> tag,
             rule_status |-> rule_status, final_sentence |-> final_sentence])

----------------------------------------------------------------------------
(* routes.py *)

\* Mutant: the two tracks swapped.
route_intent_swapped(st) ==
    IF Get(st, "is_emergency", FALSE) THEN "normal_generate"
    ELSE "emergency_generate"

route_intent(st) ==
    IF Get(st, "is_emergency", FALSE) THEN "emergency_generate"
    ELSE "normal_generate"

\* Mutant: the test of rule_status inverted.
route_emergency_check_inverted(st) ==
    IF Get(st, "rule_status", EmptyStr) # OK THEN "finish"
    ELSE "emergency_generate"

\* Mutant: a failed emergency check goes on to the normal track's refinement.
route_emergency_check_refine(st) ==
    IF Get(st, "rule_status", EmptyStr) = OK THEN "finish"
    ELSE "refine_sentence"

route_emergency_check(st) ==
    IF Get(st, "rule_status", EmptyStr) = OK THEN "finish"
    ELSE "emergency_generate"

\* Mutant: the test of rule_status inverted.
route_normal_check_inverted(st) ==
    IF Get(st, "rule_status", EmptyStr) # OK THEN "finish"
    ELSE "refine_sentence"

\* Mutant: every normal check, accepted or not, goes to refinement.
route_normal_check_always_refine(st) == "refine_sentence"

\* Mutant: a failed normal check goes back to generation.
route_normal_check_regenerate(st) ==
    IF Get(st, "rule_status", EmptyStr) = OK THEN "finish"
    ELSE "normal_generate"

route_normal_check(st) ==
    IF Get(st, "rule_status", EmptyStr) = OK THEN "finish"
    ELSE "refine_sentence"

----------------------------------------------------------------------------
(* The graph: the entry point and the fixed edges.  The graph builder is   *)
(* not among the sources; the edges are those of the specification's       *)
(* control flow.  It words the edge out of normal_generate in two ways     *)
(* (generation -> refinement -> verification; refinement only after a      *)
(* failed verification), so a run is wired with one of the two.            *)

EntryPoint == "load_recent_phrases"

NormalEntries == {"refine_sentence", "normal_check"}

Edge(node) ==
    CASE node = "load_recent_phrases" -> "normalize_phrases"
      [] node = "normalize_phrases" -> "intent_classifier"
      [] node = "emergency_generate" -> "emergency_check"
      [] node = "normal_generate" -> normal_entry
      [] node = "refine_sentence" -> "normal_check"

\* run(user_id): the state the graph is invoked with.
InitialState(user_id) == [user_id |-> user_id]

Init ==
    /\ state \in {InitialState(u) : u \in UserIds}
    /\ pc = EntryPoint
    /\ invoked = <<>>
    /\ normal_entry \in NormalEntries
    /\ store \in RunStores
    /\ failure = "none"

\* One node invocation of the walk, and the choice of the next node.
Advance(node, next) ==
    /\ invoked' = Append(invoked, node)
    /\ pc' = next
    /\ UNCHANGED <<normal_entry, store, failure>>

CanStep(node) == pc = node /\ Len(invoked) < MaxSteps

RunLoad ==
    /\ CanStep("load_recent_phrases")
    /\ state' = load_recent_phrases(state, store.list, store.value)
    /\ Advance("load_recent_phrases", Edge("load_recent_phrases"))

RunNormalize ==
    /\ CanStep("normalize_phrases")
    /\ state' = normalize_phrases(state)
    /\ Advance("normalize_phrases", Edge("normalize_phrases"))

RunClassify ==
    /\ CanStep("intent_classifier")
    /\ \E resp_text \in IntentReplies : state' = intent_classifier(state, resp_text)
    /\ Advance("intent_classifier", route_intent(state'))

RunEmergencyGenerate ==
    /\ CanStep("emergency_generate")
    /\ \E reply \in GenReplies : state' = emergency_generate(state, reply)
    /\ Advance("emergency_generate", Edge("emergency_generate"))

RunEmergencyCheck ==
    /\ CanStep("emergency_check")
    /\ \E reply \in VerifyReplies : state' = emergency_check(state, reply)
    /\ Advance("emergency_check", route_emergency_check(state'))

RunNormalGenerate ==
    /\ CanStep("normal_generate")
    /\ \E reply \in GenReplies : state' = normal_generate(state, reply)
    /\ Advance("normal_generate", Edge("normal_generate"))

RunRefine ==
    /\ CanStep("refine_sentence")
    /\ \E reply \in RefineReplies : state' = refine_sentence(state, reply)
    /\ Advance("refine_sentence", Edge("refine_sentence"))

RunNormalCheck ==
    /\ CanStep("normal_check")
    /\ \E reply \in VerifyReplies : state' = normal_check(state, reply)
    /\ Advance("normal_check", route_normal_check(state'))

Next ==
    \/ RunLoad
    \/ RunNormalize
    \/ RunClassify
    \/ RunEmergencyGenerate
    \/ RunEmergencyCheck
    \/ RunNormalGenerate
    \/ RunRefine
    \/ RunNormalCheck

Spec == Init /\ [][Next]_vars

----------------------------------------------------------------------------
(* The nodes as functions on any GraphState: NodeSpec draws a state with   *)
(* any of the sentence fields and a trace already present, and applies     *)
(* nodes to it in any order.                                               *)

\* The dicts that hold key k with a value of V, and the one that does not.
Optional(k, V) == {<<>>} \cup {(k :> v) : v \in V}

EarlierEntry == [step |-> "normal_generate", draft_sentence |-> <<"a">>]

UnitStates ==
    { d @@ r @@ f @@ t @@ InitialState(u) :
        d \in Optional("draft_sentence", {EmptyStr, <<"a">>}),
        r \in Optional("refined_sentence", {EmptyStr, <<"c">>}),
        f \in Optional("final_sentence", {EmptyStr, <<"f">>}),
        t \in Optional("debug_trace", {<<>>, <<EarlierEntry>>}),
        u \in UserIds }

NodeInit ==
    /\ state \in UnitStates
    /\ pc = "unit"
    /\ invoked = <<>>
    /\ normal_entry = "normal_check"
    /\ store = StoreOf(<<>>, [kind |-> "text", text |->
                    JsonArray(<<Quoted(help), Quoted(help), Quoted(fire)>>)])
    /\ failure = "none"

CanCall == pc = "unit" /\ Len(invoked) < MaxCalls

Called(node) ==
    /\ invoked' = Append(invoked, node)
    /\ UNCHANGED <<pc, normal_entry, store, failure>>

CallLoad ==
    /\ CanCall
    /\ state' = load_recent_phrases(state, store.list, store.value)
    /\ Called("load_recent_phrases")

CallNormalize ==
    /\ CanCall
    /\ state' = normalize_phrases(state)
    /\ Called("normalize_phrases")

CallClassify ==
    /\ CanCall
    /\ \E resp_text \in IntentReplies : state' = intent_classifier(state, resp_text)
    /\ Called("intent_classifier")

CallEmergencyGenerate ==
    /\ CanCall
    /\ \E reply \in GenReplies : state' = emergency_generate(state, reply)
    /\ Called("emergency_generate")

CallEmergencyCheck ==
    /\ CanCall
    /\ \E reply \in VerifyReplies : state' = emergency_check(state, reply)
    /\ Called("emergency_check")

CallNormalGenerate ==
    /\ CanCall
    /\ \E reply \in GenReplies : state' = normal_generate(state, reply)
    /\ Called("normal_generate")

CallRefine ==
    /\ CanCall
    /\ \E reply \in RefineReplies : state' = refine_sentence(state, reply)
    /\ Called("refine_sentence")

CallNormalCheck ==
    /\ CanCall
    /\ \E reply \in VerifyReplies : state' = normal_check(state, reply)
    /\ Called("normal_check")

NodeNext ==
    \/ CallLoad
    \/ CallNormalize
    \/ CallClassify
    \/ CallEmergencyGenerate
    \/ CallEmergencyCheck
    \/ CallNormalGenerate
    \/ CallRefine
    \/ CallNormalCheck

NodeSpec == NodeInit /\ [][NodeNext]_vars

----------------------------------------------------------------------------
(* Vocabulary of the properties. *)

Trace == Get(state, "debug_trace", <<>>)
LastEntry == Trace[Len(Trace)]
LastInvoked == invoked[Len(invoked)]
FinalSentence == Get(state, "final_sentence", EmptyStr)
RuleStatus == Get(state, "rule_status", EmptyStr)

CheckNodes == {"emergency_check", "normal_check"}
EmergencyTrack == {"emergency_generate", "emergency_check"}
NormalTrack == {"normal_generate", "refine_sentence", "normal_check"}

Invocations(node) == {i \in 1..Len(invoked) : invoked[i] = node}

\* The permitted verdict tokens of each verification prompt.
Permitted(node) ==
    IF node = "emergency_check" THEN {OK, REWRITE}
    ELSE {OK, TOO_LONG, NOT_POLITE, UNCLEAR}

\* A step of either specification that invoked a verification node.
CheckStep == invoked' # invoked /\ invoked'[Len(invoked')] \in CheckNodes

----------------------------------------------------------------------------
(* C1 *)

\* C1: every run reaches "finish" because its retry loop is bounded by a
\* retry counter: no run invokes the verification node of its track more
\* than MaxAttempts times.
C1_RetriesBounded ==
    /\ Cardinality(Invocations("emergency_check")) <= MaxAttempts
    /\ Cardinality(Invocations("normal_check")) <= MaxAttempts

----------------------------------------------------------------------------
(* C2 *)

\* C2: the run is at "finish" only directly after a verification node that
\* set rule_status to OK, and then final_sentence is the sentence that this
\* verification checked (draft_sentence on the emergency track, the refined
\* or else the draft sentence on the normal track).
C2_FinishOnlyAfterOK ==
    pc = "finish" =>
        /\ invoked # <<>>
        /\ LastInvoked \in CheckNodes
        /\ LastEntry.step = LastInvoked
        /\ RuleStatus = OK
        /\ LastEntry.rule_status = OK
        /\ Has(state, "final_sentence")
        /\ state["final_sentence"] = LastEntry.checked_sentence
        /\ LastEntry.checked_sentence =
               IF LastInvoked = "emergency_check"
               THEN Get(state, "draft_sentence", EmptyStr)
               ELSE SentenceToCheck(state)

\* A normal-track run that finished after at least one failed verification.
C2_Witness ==
    /\ pc = "finish"
    /\ LastInvoked = "normal_check"
    /\ Cardinality(Invocations("normal_check")) >= 2
    /\ FinalSentence = <<"c">>

----------------------------------------------------------------------------
(* C3 *)

----------------------------------------------------------------------------
(* C4 *)

\* C4: debug_trace grows by exactly one entry per node invocation and is
\* append-only: from the empty trace, after N invocations it has N entries,
\* entry i carries the name of the i-th node invoked, and the trace before
\* an invocation is a prefix of the trace after it.
C4_TraceAppendOnly ==
    /\ [](/\ Len(Trace) = Len(invoked)
          /\ \A i \in 1..Len(invoked) : Trace[i].step = invoked[i])
    /\ [][ /\ Len(Trace') = Len(Trace) + 1
           /\ SubSeq(Trace', 1, Len(Trace)) = Trace ]_vars

\* A run whose loader found nothing, whose classifier fell back to OTHER on
\* a reply it could not read, and whose verification failed: six entries.
C4_Witness ==
    /\ Len(invoked) = 6
    /\ Len(Trace) = 6
    /\ state["raw_phrases"] = <<>>
    /\ Trace[3].parsed_intent \notin Intents
    /\ state["intent"] = OTHER_INTENT
    /\ LastInvoked = "normal_check"
    /\ RuleStatus = UNCLEAR

----------------------------------------------------------------------------
(* C5 *)

\* The classifier returned EMERGENCY and the first emergency verification
\* returned OK.
EmergencyFirstOK ==
    /\ Len(Trace) >= 5
    /\ Trace[3].step = "intent_classifier"
    /\ Trace[3].final_intent = EMERGENCY
    /\ Trace[5].step = "emergency_check"
    /\ Trace[5].rule_status = OK

\* C5 as stated: such a run terminates after exactly 4 node invocations,
\* with final_sentence the draft of emergency_generate.
C5_FourInvocations ==
    EmergencyFirstOK =>
        /\ pc = "finish"
        /\ Len(invoked) = 4
        /\ FinalSentence = Trace[4].draft_sentence

\* C5 amended: such a run terminates after exactly 5 node invocations
\* (load_recent_phrases, normalize_phrases, intent_classifier,
\* emergency_generate, emergency_check), with final_sentence the draft of
\* emergency_generate.
C5_FiveInvocations ==
    EmergencyFirstOK =>
        /\ pc = "finish"
        /\ invoked = <<"load_recent_phrases", "normalize_phrases",
                       "intent_classifier", "emergency_generate",
                       "emergency_check">>
        /\ Trace[4].step = "emergency_generate"
        /\ FinalSentence = Trace[4].draft_sentence

\* An emergency run whose first verification accepted the draft "b".
C5_Witness ==
    /\ EmergencyFirstOK
    /\ pc = "finish"
    /\ FinalSentence = <<"b">>

----------------------------------------------------------------------------
(* C6 *)

FirstOf(S) == CHOOSE i \in S : \A j \in S : i <= j

\* The first normal_check yielded NOT_POLITE and the second yielded OK.
NotPoliteThenOK ==
    /\ Cardinality(Invocations("normal_check")) >= 2
    /\ LET first == FirstOf(Invocations("normal_check"))
           second == FirstOf(Invocations("normal_check") \ {first})
       IN /\ Trace[first].rule_status = NOT_POLITE
          /\ Trace[second].rule_status = OK

\* C6: in such a run exactly one refine_sentence invocation, and no other
\* node, lies between the two normal_check invocations; the run finishes
\* right after the second, and final_sentence is the sentence the second
\* normal_check checked.
C6_OneRefinementBetween ==
    NotPoliteThenOK =>
        LET first == FirstOf(Invocations("normal_check"))
            second == FirstOf(Invocations("normal_check") \ {first})
        IN /\ second = first + 2
           /\ invoked[first + 1] = "refine_sentence"
           /\ Len(invoked) = second
           /\ pc = "finish"
           /\ FinalSentence = Trace[second].checked_sentence
           /\ Trace[second].checked_sentence = SentenceToCheck(state)

\* Such a run, finished on the refined sentence "c".
C6_Witness ==
    /\ NotPoliteThenOK
    /\ pc = "finish"
    /\ FinalSentence = <<"c">>

----------------------------------------------------------------------------
(* C7 *)

\* C7: on both tracks a verification reply (as the node compares it, after
\* strip()) that is none of the track's permitted tokens gives a negative
\* verdict: rule_status is not OK, final_sentence is left unchanged and the
\* router does not go to "finish".
C7_UnknownReplyIsNegative ==
    [][ ( /\ CheckStep
          /\ LastEntry'.raw_response \notin Permitted(LastEntry'.step) ) =>
            /\ RuleStatus' # OK
            /\ FinalSentence' = FinalSentence
            /\ pc' # "finish"
      ]_vars

----------------------------------------------------------------------------
(* C8 *)

\* C8: after a verification whose rule_status is OK the next step is
\* "finish" on either track; after a non-OK emergency_check the next node
\* is emergency_generate; after a non-OK normal_check the next node is
\* refine_sentence (never normal_generate).
C8_RetryRouting ==
    (invoked # <<>> /\ LastInvoked \in CheckNodes) =>
        /\ (RuleStatus = OK => pc = "finish")
        /\ (LastInvoked = "emergency_check" /\ RuleStatus # OK
                => pc = "emergency_generate")
        /\ (LastInvoked = "normal_check" /\ RuleStatus # OK
                => pc = "refine_sentence")

\* A normal check that found the sentence too long, for the second time.
C8_Witness ==
    /\ invoked # <<>>
    /\ LastInvoked = "normal_check"
    /\ Cardinality(Invocations("normal_check")) = 2
    /\ RuleStatus = TOO_LONG
    /\ pc = "refine_sentence"

----------------------------------------------------------------------------
(* C9 *)

\* C9: the track is chosen once, right after intent_classifier, from
\* is_emergency, which no later node changes: every node invoked (or due)
\* after the classifier belongs to the emergency track when is_emergency is
\* true and to the normal track when it is false.
C9_TrackExclusive ==
    Len(invoked) >= 3 =>
        LET track == IF state["is_emergency"] THEN EmergencyTrack ELSE NormalTrack
        IN /\ invoked[3] = "intent_classifier"
           /\ state["is_emergency"] = Trace[3].is_emergency
           /\ state["is_emergency"] = (state["intent"] = EMERGENCY)
           /\ \A i \in 4..Len(invoked) : invoked[i] \in track
           /\ pc \in track \cup {"finish"}

\* An emergency run in its third round.
C9_Witness ==
    /\ Len(invoked) >= 8
    /\ state["is_emergency"]
    /\ LastInvoked = "emergency_generate"

----------------------------------------------------------------------------
(* C10 *)

\* C10: for the replies {"intent":"EMERGENCY"}, emergency (bare text) and
\* {"intent":"BOGUS"} the classifier sets intent to EMERGENCY, EMERGENCY and
\* OTHER.
C10_IntentOfReplies ==
    Len(invoked) >= 3 =>
        LET reply == Trace[3].raw_response
        IN /\ (reply = JsonIntent(EMERGENCY) => state["intent"] = EMERGENCY)
           /\ (reply = <<"e","m","e","r","g","e","n","c","y">>
                   => state["intent"] = EMERGENCY)
           /\ (reply = JsonIntent(<<"B","O","G","U","S">>)
                   => state["intent"] = OTHER_INTENT)

\* The bare reply emergency was read through the raw-text fallback.
C10_Witness ==
    /\ Len(invoked) >= 3
    /\ Trace[3].raw_response = <<"e","m","e","r","g","e","n","c","y">>
    /\ Trace[3].parsed_intent = EMERGENCY
    /\ state["intent"] = EMERGENCY
    /\ state["is_emergency"]

----------------------------------------------------------------------------
(* The loader and the normalizer on every store: PhraseSpec runs the first *)
(* two nodes of the graph on each store of Stores, and then the normalizer *)
(* once more on its own output.                                            *)

PhraseInit ==
    /\ state \in {InitialState(u) : u \in UserIds}
    /\ pc = EntryPoint
    /\ invoked = <<>>
    /\ normal_entry = "normal_check"
    /\ store \in Stores
    /\ failure = "none"

Renormalize ==
    /\ pc = "intent_classifier"
    /\ Len(invoked) = 2
    /\ state' = normalize_phrases(
                    Put(state, "raw_phrases", state["normalized_phrases"]))
    /\ invoked' = Append(invoked, "normalize_phrases")
    /\ pc' = "renormalized"
    /\ UNCHANGED <<normal_entry, store, failure>>

PhraseNext ==
    \/ RunLoad
    \/ RunNormalize
    \/ Renormalize

PhraseSpec == PhraseInit /\ [][PhraseNext]_vars

----------------------------------------------------------------------------
(* C11 *)

\* The positions of a sequence that start a run of equal tokens, and the
\* k-th of them.
RunStarts(raw) == {i \in 1..Len(raw) : i = 1 \/ raw[i] # raw[i - 1]}
KthOf(S, k) == CHOOSE i \in S : Cardinality({j \in S : j <= i}) = k

\* C11: normalized_phrases is raw_phrases with every run of equal
\* consecutive tokens collapsed to its first token: it is no longer than
\* the input, has no two adjacent equal tokens, is the subsequence of the
\* input at the positions that start a run (so a token that comes back
\* after a different one is kept), and is empty when the input is empty.
C11_ConsecutiveCollapse ==
    (Has(state, "raw_phrases") /\ Has(state, "normalized_phrases")) =>
        LET raw == state["raw_phrases"]
            out == state["normalized_phrases"]
        IN /\ Len(out) <= Len(raw)
           /\ \A i \in 1..(Len(out) - 1) : out[i] # out[i + 1]
           /\ Len(out) = Cardinality(RunStarts(raw))
           /\ \A k \in 1..Len(out) : out[k] = raw[KthOf(RunStarts(raw), k)]
           /\ (raw = <<>> => out = <<>>)

\* help help fire help was normalized to help fire help.
C11_Witness ==
    /\ Len(invoked) = 2
    /\ state["raw_phrases"] = <<help, help, fire, help>>
    /\ state["normalized_phrases"] = <<help, fire, help>>

----------------------------------------------------------------------------
(* C12 *)

\* C12: the normalizer applied to its own output returns that output.
C12_NormalizeIdempotent ==
    pc = "renormalized" =>
        /\ state["raw_phrases"] = Trace[2].normalized_phrases
        /\ state["normalized_phrases"] = state["raw_phrases"]

\* The first pass collapsed help help help fire to help fire, and the
\* second pass was applied to that.
C12_Witness ==
    /\ pc = "renormalized"
    /\ Trace[2].raw_phrases = <<help, help, help, fire>>
    /\ state["normalized_phrases"] = <<help, fire>>

----------------------------------------------------------------------------
(* C13 *)

\* C13: after load_recent_phrases, raw_phrases holds at most 10 tokens,
\* from the list as from the JSON-string fallback.
C13_AtMostTenPhrases ==
    Has(state, "raw_phrases") => Len(state["raw_phrases"]) <= RecentWindow

----------------------------------------------------------------------------
(* C18 *)

\* The last RecentWindow tokens of a stored list.
MostRecent(lst) ==
    IF Len(lst) <= RecentWindow THEN lst
    ELSE SubSeq(lst, Len(lst) - RecentWindow + 1, Len(lst))

\* A get that raises, a missing value, an empty string, text that is not
\* JSON, and JSON that is not a list.
UnusableValues ==
    { [kind |-> "raises", text |-> <<>>],
      [kind |-> "none", text |-> <<>>],
      [kind |-> "text", text |-> <<>>],
      [kind |-> "text", text |-> <<"o","o","p","s">>],
      [kind |-> "text", text |-> JsonObject(<<"a">>, Quoted(<<"b">>))] }

\* C18: load_recent_phrases never fails the run.  When the list read
\* yields tokens, raw_phrases is those tokens whatever the string value is
\* (the fallback is not taken); when it yields none and the get raises,
\* finds no value, or finds text that is not a JSON list, raw_phrases is
\* empty; in every case the loader records exactly one trace entry and the
\* run goes on to normalize_phrases.
C18_LoaderNeverFails ==
    (Len(invoked) >= 1 /\ pc # "renormalized") =>
        /\ invoked[1] = "load_recent_phrases"
        /\ Has(state, "raw_phrases")
        /\ (store.list # <<>> => state["raw_phrases"] = MostRecent(store.list))
        /\ (store.list = <<>> /\ store.value \in UnusableValues
                => state["raw_phrases"] = <<>>)
        /\ Cardinality({i \in 1..Len(Trace) :
                            Trace[i].step = "load_recent_phrases"}) = 1
        /\ Trace[1].step = "load_recent_phrases"
        /\ Trace[1].count = Len(state["raw_phrases"])
        /\ (Len(invoked) = 1 => pc = "normalize_phrases")

\* The list was empty and the stored string was a JSON object: the loader
\* returned no phrases and the normalizer ran on them.
C18_Witness ==
    /\ Len(invoked) = 2
    /\ store.list = <<>>
    /\ store.value = [kind |-> "text", text |-> JsonObject(<<"a">>, Quoted(<<"b">>))]
    /\ state["raw_phrases"] = <<>>
    /\ Len(Trace) = 2
    /\ invoked[2] = "normalize_phrases"

----------------------------------------------------------------------------
(* C14 *)

\* The fields each node declares as its output.
Writes(node) ==
    CASE node = "load_recent_phrases" -> {"raw_phrases"}
      [] node = "normalize_phrases" -> {"normalized_phrases"}
      [] node = "intent_classifier" -> {"intent", "is_emergency"}
      [] node \in {"emergency_generate", "normal_generate"} -> {"draft_sentence"}
      [] node = "refine_sentence" -> {"refined_sentence"}
      [] node \in CheckNodes -> {"rule_status", "final_sentence"}

\* C14: every node invocation returns its input state with only the node's
\* declared fields replaced and one entry appended to debug_trace: every
\* other field keeps its value, no other field appears, and user_id is
\* never changed - on every step of a run, retries included.
C14_FrameEffect ==
    [][invoked' # invoked =>
         LET node == invoked'[Len(invoked')]
             own == Writes(node) \cup {"debug_trace"}
         IN /\ \A k \in DOMAIN state \ own :
                   k \in DOMAIN state' /\ state'[k] = state[k]
            /\ DOMAIN state' \subseteq DOMAIN state \cup own
            /\ Writes(node) \subseteq DOMAIN state'
            /\ Len(Trace') = Len(Trace) + 1
            /\ SubSeq(Trace', 1, Len(Trace)) = Trace
            /\ state'["user_id"] = state["user_id"]]_vars

\* A normal-track run that finished after two refinements, with the draft
\* of normal_generate, the phrases and the intent still in place.
C14_Witness ==
    /\ pc = "finish"
    /\ Cardinality(Invocations("refine_sentence")) >= 2
    /\ state["user_id"] \in UserIds
    /\ state["draft_sentence"] = <<"a">>
    /\ state["refined_sentence"] = <<"c">>
    /\ state["raw_phrases"] = <<help, help, fire>>
    /\ state["normalized_phrases"] = <<help, fire>>
    /\ state["intent"] = REQUEST

----------------------------------------------------------------------------
(* C15 *)

\* The verdict of the i-th invocation of the run, a verification.
VerdictAt(i) == Trace[i].rule_status

----------------------------------------------------------------------------
(* C16 *)

\* C16: normal_check checks refined_sentence if the state carries one -
\* an empty one included - and draft_sentence otherwise; emergency_check
\* always checks draft_sentence.
C16_ChecksMostRefined ==
    (invoked # <<>> /\ LastInvoked \in CheckNodes) =>
        LastEntry.checked_sentence =
            IF LastInvoked = "normal_check" /\ Has(state, "refined_sentence")
            THEN state["refined_sentence"]
            ELSE Get(state, "draft_sentence", EmptyStr)

----------------------------------------------------------------------------
(* C17 *)

\* Replies from which neither reading yields a member of the enumeration:
\* {"intent":"BOGUS"}, the JSON string "emergency" (quotes included),
\* {"intent":null} and {}.
MalformedReplies ==
    { JsonIntent(<<"B","O","G","U","S">>),
      Quoted(<<"e","m","e","r","g","e","n","c","y">>),
      JsonObject(intent_key, NullWord),
      <<"{","}">> }

\* C17: in every state after intent_classifier, intent is one of
\* EMERGENCY, REQUEST, STATUS, OTHER and is_emergency is true exactly when
\* intent is EMERGENCY; a reply from which neither the JSON reading nor
\* the raw-text reading yields a member gives OTHER and false, and the
\* classifier returns a state for it (the run goes on to a generation
\* node).
C17_IntentWellFormed ==
    Len(invoked) >= 3 =>
        /\ invoked[3] = "intent_classifier"
        /\ Has(state, "intent") /\ Has(state, "is_emergency")
        /\ state["intent"] \in Intents
        /\ state["is_emergency"] \in BOOLEAN
        /\ state["is_emergency"] <=> (state["intent"] = EMERGENCY)
        /\ Trace[3].raw_response \in MalformedReplies =>
              /\ state["intent"] = OTHER_INTENT
              /\ ~state["is_emergency"]
              /\ (Len(invoked) >= 4 => invoked[4] = "normal_generate")
        /\ (Len(invoked) = 3 =>
               pc = IF state["is_emergency"] THEN "emergency_generate"
                    ELSE "normal_generate")

\* The reply {"intent":null} was read as NONE and classified OTHER, and the
\* run went on to the normal track.
C17_Witness ==
    /\ Len(invoked) >= 4
    /\ Trace[3].raw_response = JsonObject(intent_key, NullWord)
    /\ Trace[3].parsed_intent = <<"N","O","N","E">>
    /\ state["intent"] = OTHER_INTENT
    /\ ~state["is_emergency"]
    /\ invoked[4] = "normal_generate"

----------------------------------------------------------------------------
(* Provider failures: FailSpec is the graph walk in which a call to the    *)
(* generation or verification provider may raise.                          *)

\* The nodes that call gpt_intent_chat or gpt_client.chat.
ProviderNodes ==
    {"intent_classifier", "emergency_generate", "emergency_check",
     "normal_generate", "refine_sentence", "normal_check"}

\* Mutant: the node catches the exception and returns its input state with
\* a trace entry.
OnProviderError_swallowed(node, st) ==
    [raised |-> FALSE, st |-> _append_debug(st, node, [error |-> TRUE])]

\* What a node does when its provider call raises: the call is outside
\* every try block, so the exception leaves the node and nothing is
\* returned.
OnProviderError(node, st) == [raised |-> TRUE, st |-> st]

\* The provider call of the current node raises.  An exception that leaves
\* the node ends the run: the engine does not invoke the node again and
\* takes no edge.
ProviderFails ==
    /\ pc \in ProviderNodes
    /\ Len(invoked) < MaxSteps
    /\ failure = "none"
    /\ failure' = pc
    /\ LET out == OnProviderError(pc, state)
       IN /\ state' = out.st
          /\ IF out.raised
             THEN invoked' = invoked /\ pc' = "failed"
             ELSE invoked' = Append(invoked, pc) /\ pc' = pc
    /\ UNCHANGED <<normal_entry, store>>

FailNext ==
    \/ Next
    \/ ProviderFails

FailSpec == Init /\ [][FailNext]_vars

----------------------------------------------------------------------------
(* C19 *)

\* C19: a failure of the provider call of intent_classifier, of a
\* generation node, of refine_sentence or of a verification node is fatal
\* for the run: the step on which it fails changes neither the state nor
\* the list of invoked nodes, it ends the run, and no step follows it (the
\* node is not invoked again and no other node is invoked).
C19_ProviderFailureFatal ==
    [][/\ failure = "none"
       /\ failure' # "none" =>
             /\ pc \in ProviderNodes
             /\ failure' = pc
             /\ state' = state
             /\ invoked' = invoked
             /\ pc' = "failed"]_vars

\* The refinement provider failed in a retry, after a rejected normal_check.
C19_Witness ==
    /\ failure = "refine_sentence"
    /\ pc = "failed"
    /\ invoked # <<>>
    /\ LastInvoked = "normal_check"
    /\ RuleStatus = NOT_POLITE
    /\ ~Has(state, "final_sentence") \/ FinalSentence = EmptyStr

----------------------------------------------------------------------------
(* C20 *)

\* C20: normal_generate is invoked at most once in a run and the
\* draft_sentence it wrote never changes afterwards; every refine_sentence
\* invocation reads that draft as its input, and the normal_check that
\* follows a refinement checks the refined_sentence this refinement wrote.
C20_RefineFromSameDraft ==
    /\ Cardinality(Invocations("normal_generate")) <= 1
    /\ \A g \in Invocations("normal_generate") :
          /\ state["draft_sentence"] = Trace[g].draft_sentence
          /\ \A i \in Invocations("refine_sentence") :
                /\ g < i
                /\ Trace[i].draft_sentence = Trace[g].draft_sentence
                /\ Trace[i].prompt_preview =
                       Prompt("refine_sentence", Trace[g].draft_sentence)
                /\ (i < Len(invoked) =>
                       /\ invoked[i + 1] = "normal_check"
                       /\ Trace[i + 1].checked_sentence
                              = Trace[i].refined_sentence)

==========================================================================
